---- MODULE Spec2Model ----
(***************************************************************************)
(* Model of client.py: the syncrepl consumer (SyncReplClient), the         *)
(* publisher (post_change, stringify) and the connection supervisor (main).*)
(***************************************************************************)
EXTENDS Integers, Sequences, FiniteSets, TLC

(***************************************************************************)
(* Bounds and input domains.                                               *)
(***************************************************************************)
\* longest identifier list handed to syncrepl_delete / syncrepl_present
MaxIds == 2

\* deepest nesting and longest list of the values handed to stringify alone
MaxDepth == 2
MaxLen == 2

UUIDs == {"u1", "u2"}
DNs == {"cn=a", "cn=b"}
Cookies == {"c1"}

(***************************************************************************)
(* Python values.  The field name is the type tag, so that a str and the   *)
(* bytes it was decoded from are different values.                         *)
(***************************************************************************)
Str(x) == [s |-> x]
Bytes(x) == [b |-> x]
List(q) == [l |-> q]
Dict(f) == [d |-> f]
PyNone == [none |-> TRUE]
Exc(e) == [exc |-> e]

IsStr(v) == DOMAIN v = {"s"}
IsBytes(v) == DOMAIN v = {"b"}
IsList(v) == DOMAIN v = {"l"}
IsDict(v) == DOMAIN v = {"d"}
IsExc(v) == DOMAIN v = {"exc"}

\* the empty dict {}
EmptyDict == Dict([k \in {} |-> PyNone])

\* byte strings that are not valid UTF-8
InvalidUtf8 == {"\\xff"}

\* attribute values the directory delivers (python-ldap hands every value over
\* as bytes): one that decodes as UTF-8 and one that does not
Values == {Bytes("a"), Bytes("\\xff")}

\* attribute maps the directory delivers: attribute name -> list of values
AttrMaps == {Dict([cn |-> List(<<v>>)]) : v \in Values}

\* identifier lists of length 0..MaxIds (duplicates allowed)
IdLists == UNION {[1..n -> UUIDs] : n \in 0..MaxIds}

(***************************************************************************)
(* stringify and post_change.                                              *)
(***************************************************************************)
\* str(obj, 'utf-8'): strict decoding, raises on undecodable input
str_utf8(obj) ==
    IF obj.b \in InvalidUtf8 THEN Exc("UnicodeDecodeError") ELSE Str(obj.b)

\* first exception among the converted members of a sequence, if any
FirstExc(q) ==
    LET bad == {i \in 1..Len(q) : IsExc(q[i])}
    IN  q[CHOOSE i \in bad : \A j \in bad : i <= j]

\* stringify with newlist.append(el) moved into the two branches above it: an
\* element that is neither bytes nor a list is dropped
RECURSIVE stringify_append_in_branches(_)
stringify_append_in_branches(obj) ==
    IF IsBytes(obj) THEN str_utf8(obj)
    ELSE IF IsDict(obj) THEN
        LET conv == [k \in DOMAIN obj.d |->
                        IF IsBytes(obj.d[k]) THEN str_utf8(obj.d[k])
                        ELSE IF IsList(obj.d[k])
                             THEN stringify_append_in_branches(obj.d[k])
                        ELSE obj.d[k]]
            bad == {k \in DOMAIN conv : IsExc(conv[k])}
        IN  IF bad # {} THEN conv[CHOOSE k \in bad : TRUE] ELSE Dict(conv)
    ELSE IF IsList(obj) THEN
        LET kept == SelectSeq(obj.l, LAMBDA el : IsBytes(el) \/ IsList(el))
            conv == [i \in 1..Len(kept) |->
                        IF IsBytes(kept[i]) THEN str_utf8(kept[i])
                        ELSE stringify_append_in_branches(kept[i])]
        IN  IF \E i \in 1..Len(conv) : IsExc(conv[i]) THEN FirstExc(conv)
            ELSE List(conv)
    ELSE obj

\* The value stringify returns, or the exception it raises.  A dict is
\* converted in place, key by key, and returned; every exception here is the
\* same UnicodeDecodeError, so which key raised first does not show.  The
\* dicts post_change hands over hold one list ("cn") and one str ("dn"), so
\* a raise leaves them as they were.  Dicts inside dicts or lists are not
\* visited.
RECURSIVE stringify(_)
stringify(obj) ==
    IF IsBytes(obj) THEN str_utf8(obj)
    ELSE IF IsDict(obj) THEN
        LET conv == [k \in DOMAIN obj.d |->
                        IF IsBytes(obj.d[k]) THEN str_utf8(obj.d[k])
                        ELSE IF IsList(obj.d[k]) THEN stringify(obj.d[k])
                        ELSE obj.d[k]]
            bad == {k \in DOMAIN conv : IsExc(conv[k])}
        IN  IF bad # {} THEN conv[CHOOSE k \in bad : TRUE] ELSE Dict(conv)
    ELSE IF IsList(obj) THEN
        LET conv == [i \in 1..Len(obj.l) |->
                        IF IsBytes(obj.l[i]) THEN str_utf8(obj.l[i])
                        ELSE IF IsList(obj.l[i]) THEN stringify(obj.l[i])
                        ELSE obj.l[i]]
        IN  IF \E i \in 1..Len(conv) : IsExc(conv[i]) THEN FirstExc(conv)
            ELSE List(conv)
    ELSE obj

\* post_change without its try/except: an exception of requests.put leaves it
post_change_put_raises(dn, attributes, previous_attributes, change_type, sinkOk) ==
    LET sdn == stringify(dn)
        sold == stringify(previous_attributes)
        snew == stringify(attributes)
    IN  IF IsExc(sdn)
        THEN [exc |-> sdn.exc, puts |-> <<>>,
              attributes |-> attributes, previous_attributes |-> previous_attributes]
        ELSE IF IsExc(sold)
        THEN [exc |-> sold.exc, puts |-> <<>>,
              attributes |-> attributes, previous_attributes |-> previous_attributes]
        ELSE IF IsExc(snew)
        THEN [exc |-> snew.exc, puts |-> <<>>,
              attributes |-> attributes, previous_attributes |-> sold]
        ELSE [exc |-> IF sinkOk THEN "none" ELSE "ConnectionError",
              puts |-> << [js |-> [dn |-> sdn, change_type |-> change_type,
                                   old_attributes |-> sold, new_attributes |-> snew],
                           ok |-> sinkOk] >>,
              attributes |-> snew, previous_attributes |-> sold]

\* post_change(dn, attributes, previous_attributes, change_type); sinkOk is
\* whether requests.put returns (TRUE) or raises (FALSE).  The result holds
\* the exception leaving post_change, the PUT made, and the two dicts as
\* stringify leaves them (it converts a dict in place).
post_change(dn, attributes, previous_attributes, change_type, sinkOk) ==
    LET sdn == stringify(dn)
        sold == stringify(previous_attributes)
        snew == stringify(attributes)
    IN  IF IsExc(sdn)
        THEN [exc |-> sdn.exc, puts |-> <<>>,
              attributes |-> attributes, previous_attributes |-> previous_attributes]
        ELSE IF IsExc(sold)
        THEN [exc |-> sold.exc, puts |-> <<>>,
              attributes |-> attributes, previous_attributes |-> previous_attributes]
        ELSE IF IsExc(snew)
        THEN [exc |-> snew.exc, puts |-> <<>>,
              attributes |-> attributes, previous_attributes |-> sold]
        ELSE [exc |-> "none",
              puts |-> << [js |-> [dn |-> sdn, change_type |-> change_type,
                                   old_attributes |-> sold, new_attributes |-> snew],
                           ok |-> sinkOk] >>,
              attributes |-> snew, previous_attributes |-> sold]

(***************************************************************************)
(* changedb: a Python dict, kept as the sequence of its (key, value) pairs *)
(* in insertion order.                                                     *)
(***************************************************************************)
Keys(db) == [i \in 1..Len(db) |-> db[i][1]]
Has(db, uuid) == \E i \in 1..Len(db) : db[i][1] = uuid
Get(db, uuid) == db[CHOOSE i \in 1..Len(db) : db[i][1] = uuid][2]
\* an assignment that keeps the value of a key already present
SetItem_keeps_old(db, uuid, v) ==
    IF Has(db, uuid) THEN db ELSE Append(db, <<uuid, v>>)

SetItem(db, uuid, v) ==
    IF Has(db, uuid)
    THEN [i \in 1..Len(db) |-> IF db[i][1] = uuid THEN <<uuid, v>> ELSE db[i]]
    ELSE Append(db, <<uuid, v>>)
DelItem(db, uuid) == SelectSeq(db, LAMBDA p : p[1] # uuid)

\* attributes['dn'] = dn
SetDn(attributes, dn) ==
    Dict([k \in DOMAIN attributes.d \cup {"dn"} |->
            IF k = "dn" THEN dn ELSE attributes.d[k]])

(***************************************************************************)
(* State.                                                                  *)
(***************************************************************************)
VARIABLES
    pc,             \* position of main
    exitStatus,     \* process exit status, -1 while main runs
    cookie,         \* SyncReplClient.cookie
    sync_done,      \* SyncReplClient.sync_done
    changedb,       \* SyncReplClient.changedb
    presentUUIDs,   \* SyncReplClient.__presentUUIDs (its key set)
    last,           \* the step just taken and its arguments
    posted,         \* calls of post_change made by the step just taken
    puts,           \* requests.put calls made by the step just taken
    raised,         \* exception that left the step just taken, or "none"
    onlyEntries,    \* history: this client object has run no callback but syncrepl_entry
    latest,         \* history, kept while onlyEntries: uuid -> arguments of its latest syncrepl_entry
    prevKnown,      \* history, kept until syncrepl_refreshdone: the uuids the previous client
                    \* object held when an exception ended its polling after refreshdone
    arg,            \* stringify called on its own: the value it was first given
    obj,            \* stringify called on its own: the value after the calls made
    once,           \* stringify called on its own: the outcome of the first call
    calls           \* stringify called on its own: number of calls made

vars == <<pc, exitStatus, cookie, sync_done, changedb, presentUUIDs,
          last, posted, puts, raised, onlyEntries, latest, prevKnown,
          arg, obj, once, calls>>

pure == <<arg, obj, once, calls>>

history == <<onlyEntries, latest, prevKnown>>

client == <<cookie, sync_done, changedb, presentUUIDs>>

\* main is about to enter its loop; no client object exists yet, its fields
\* are shown as __init__ will set them
Init ==
    /\ pc = "Connecting"
    /\ exitStatus = -1
    /\ cookie = PyNone
    /\ sync_done = FALSE
    /\ changedb = <<>>
    /\ presentUUIDs = {}
    /\ last = [op |-> "start"]
    /\ posted = <<>>
    /\ puts = <<>>
    /\ raised = "none"
    /\ onlyEntries = TRUE
    /\ latest = <<>>
    /\ prevKnown = {}
    /\ arg = PyNone
    /\ obj = PyNone
    /\ once = PyNone
    /\ calls = 0

(***************************************************************************)
(* The callback handlers as functions of the client state.                 *)
(* down: the requests.put calls of this handler (counted from 1) that      *)
(* raise.                                                                  *)
(***************************************************************************)
\* the arguments of one post_change call
Call(dn, attributes, previous_attributes, change_type) ==
    [dn |-> dn, attributes |-> attributes,
     previous_attributes |-> previous_attributes, change_type |-> change_type]

\* syncrepl_entry without the "if self.sync_done" test: it always posts
entry_result_always_posts(db, done, dn, attributes0, uuid, down) ==
    LET known == Has(db, uuid)
        change_type == IF known THEN "modify" ELSE "add"
        previous_attributes == IF known THEN Get(db, uuid) ELSE EmptyDict
        attributes == SetDn(attributes0, Str(dn))
        db1 == SetItem(db, uuid, attributes)
        r == post_change(Str(dn), attributes, previous_attributes, change_type,
                         1 \notin down)
    IN  [changedb |-> SetItem(db1, uuid, r.attributes),
         change_type |-> change_type,
         posted |-> << Call(Str(dn), attributes, previous_attributes, change_type) >>,
         puts |-> r.puts, exc |-> r.exc]

entry_result(db, done, dn, attributes0, uuid, down) ==
    LET known == Has(db, uuid)
        change_type == IF known THEN "modify" ELSE "add"
        previous_attributes == IF known THEN Get(db, uuid) ELSE EmptyDict
        attributes == SetDn(attributes0, Str(dn))
        db1 == SetItem(db, uuid, attributes)
        r == post_change(Str(dn), attributes, previous_attributes, change_type,
                         1 \notin down)
    IN  IF done
        THEN [changedb |-> SetItem(db1, uuid, r.attributes),
              change_type |-> change_type,
              posted |-> << Call(Str(dn), attributes, previous_attributes, change_type) >>,
              puts |-> r.puts, exc |-> r.exc]
        ELSE [changedb |-> db1, change_type |-> change_type,
              posted |-> <<>>, puts |-> <<>>, exc |-> "none"]

\* the loop of syncrepl_delete over the filtered list
RECURSIVE delete_loop(_, _, _, _, _)
delete_loop(db, uuids, down, postedAcc, putsAcc) ==
    IF uuids = <<>>
    THEN [changedb |-> db, posted |-> postedAcc, puts |-> putsAcc, exc |-> "none"]
    ELSE IF ~Has(db, Head(uuids))
    THEN [changedb |-> db, posted |-> postedAcc, puts |-> putsAcc, exc |-> "KeyError"]
    ELSE
        LET uuid == Head(uuids)
            dn == Get(db, uuid).d["dn"]
            r == post_change(dn, EmptyDict, Get(db, uuid), "delete",
                             (Len(putsAcc) + 1) \notin down)
            call == Call(dn, EmptyDict, Get(db, uuid), "delete")
        IN  IF r.exc # "none"
            THEN [changedb |-> SetItem(db, uuid, r.previous_attributes),
                  posted |-> Append(postedAcc, call), puts |-> putsAcc,
                  exc |-> r.exc]
            ELSE delete_loop(DelItem(db, uuid), Tail(uuids), down,
                             Append(postedAcc, call), putsAcc \o r.puts)

delete_result(db, uuids, down) ==
    delete_loop(db, SelectSeq(uuids, LAMBDA uuid : Has(db, uuid)), down, <<>>, <<>>)

\* uuids is PyNone or a List; no uuid is the string "ldap_cookie", which
\* line 75 skips
present_result(db, present, uuids, refreshDeletes, down) ==
    IF uuids = PyNone
    THEN IF refreshDeletes = FALSE
         THEN LET deleted_entries ==
                      SelectSeq(Keys(db), LAMBDA uuid :
                                    uuid \notin present /\ uuid # "ldap_cookie")
                  r == delete_result(db, deleted_entries, down)
              IN  [changedb |-> r.changedb,
                   presentUUIDs |-> IF r.exc = "none" THEN {} ELSE present,
                   posted |-> r.posted, puts |-> r.puts, exc |-> r.exc]
         ELSE [changedb |-> db, presentUUIDs |-> {},
               posted |-> <<>>, puts |-> <<>>, exc |-> "none"]
    ELSE IF refreshDeletes = TRUE
         THEN LET r == delete_result(db, uuids.l, down)
              IN  [changedb |-> r.changedb, presentUUIDs |-> present,
                   posted |-> r.posted, puts |-> r.puts, exc |-> r.exc]
         ELSE [changedb |-> db,
               presentUUIDs |-> present \cup {uuids.l[i] : i \in 1..Len(uuids.l)},
               posted |-> <<>>, puts |-> <<>>, exc |-> "none"]

\* the requests.put calls a handler makes are numbered 1..n; any of them may raise
Downs(n) == SUBSET (1..n)

KeySet(db) == {db[i][1] : i \in 1..Len(db)}

\* history kept by a callback other than syncrepl_entry
NotOnlyEntries == onlyEntries' = FALSE /\ latest' = <<>>

\* history kept when a callback returns or raises, leaving changedb db
PollingEnds(exc, db) ==
    prevKnown' = IF exc = "none" THEN prevKnown
                 ELSE IF sync_done THEN KeySet(db) ELSE {}

\* where main is after a callback: an exception leaves syncrepl_poll and is
\* caught by "except Exception", which sleeps
AfterCallback(exc) == IF exc = "none" THEN "Polling" ELSE "BackoffPoll"

(***************************************************************************)
(* Callbacks, dispatched by syncrepl_poll while main is polling.           *)
(***************************************************************************)
syncrepl_set_cookie(c) ==
    /\ pc = "Polling"
    /\ UNCHANGED pure
    /\ cookie' = Str(c)
    /\ last' = [op |-> "syncrepl_set_cookie", cookie |-> c]
    /\ posted' = <<>> /\ puts' = <<>> /\ raised' = "none"
    /\ NotOnlyEntries
    /\ UNCHANGED <<pc, exitStatus, sync_done, changedb, presentUUIDs, prevKnown>>

syncrepl_entry(dn, attributes, uuid, down) ==
    /\ pc = "Polling"
    /\ UNCHANGED pure
    /\ \E r \in {entry_result(changedb, sync_done, dn, attributes, uuid, down)} :
           /\ changedb' = r.changedb
           /\ posted' = r.posted
           /\ puts' = r.puts
           /\ raised' = r.exc
           /\ pc' = AfterCallback(r.exc)
           /\ last' = [op |-> "syncrepl_entry", dn |-> dn, attributes |-> attributes,
                       uuid |-> uuid, change_type |-> r.change_type]
           /\ PollingEnds(r.exc, r.changedb)
    /\ latest' = IF onlyEntries
                 THEN [u \in DOMAIN latest \cup {uuid} |->
                          IF u = uuid THEN [dn |-> dn, attributes |-> attributes]
                          ELSE latest[u]]
                 ELSE latest
    /\ UNCHANGED onlyEntries
    /\ UNCHANGED <<exitStatus, cookie, sync_done, presentUUIDs>>

syncrepl_delete(uuids, down) ==
    /\ pc = "Polling"
    /\ UNCHANGED pure
    /\ \E r \in {delete_result(changedb, uuids, down)} :
           /\ changedb' = r.changedb
           /\ posted' = r.posted
           /\ puts' = r.puts
           /\ raised' = r.exc
           /\ pc' = AfterCallback(r.exc)
           /\ PollingEnds(r.exc, r.changedb)
    /\ NotOnlyEntries
    /\ last' = [op |-> "syncrepl_delete", uuids |-> uuids]
    /\ UNCHANGED <<exitStatus, cookie, sync_done, presentUUIDs>>

syncrepl_present(uuids, refreshDeletes, down) ==
    /\ pc = "Polling"
    /\ UNCHANGED pure
    /\ \E r \in {present_result(changedb, presentUUIDs, uuids, refreshDeletes, down)} :
           /\ changedb' = r.changedb
           /\ presentUUIDs' = r.presentUUIDs
           /\ posted' = r.posted
           /\ puts' = r.puts
           /\ raised' = r.exc
           /\ pc' = AfterCallback(r.exc)
           /\ PollingEnds(r.exc, r.changedb)
    /\ NotOnlyEntries
    /\ last' = [op |-> "syncrepl_present", uuids |-> uuids,
                refreshDeletes |-> refreshDeletes]
    /\ UNCHANGED <<exitStatus, cookie, sync_done>>

syncrepl_refreshdone ==
    /\ pc = "Polling"
    /\ UNCHANGED pure
    /\ sync_done' = TRUE
    /\ last' = [op |-> "syncrepl_refreshdone"]
    /\ posted' = <<>> /\ puts' = <<>> /\ raised' = "none"
    /\ NotOnlyEntries
    /\ prevKnown' = {}
    /\ UNCHANGED <<pc, exitStatus, cookie, changedb, presentUUIDs>>

(***************************************************************************)
(* main.                                                                   *)
(***************************************************************************)
\* a step of main that runs no callback
Quiet(op) ==
    /\ last' = [op |-> op]
    /\ posted' = <<>> /\ puts' = <<>> /\ raised' = "none"

\* a reconnect that carries changedb over to the new client object
Connect_keeps_changedb ==
    /\ pc = "Connecting"
    /\ UNCHANGED pure
    /\ cookie' = PyNone
    /\ sync_done' = FALSE
    /\ presentUUIDs' = {}
    /\ pc' = "Bound"
    /\ Quiet("Connect")
    /\ onlyEntries' = TRUE
    /\ latest' = <<>>
    /\ UNCHANGED <<exitStatus, prevKnown, changedb>>

\* a reconnect that carries sync_done over to the new client object
Connect_keeps_sync_done ==
    /\ pc = "Connecting"
    /\ UNCHANGED pure
    /\ cookie' = PyNone
    /\ changedb' = <<>>
    /\ presentUUIDs' = {}
    /\ pc' = "Bound"
    /\ Quiet("Connect")
    /\ onlyEntries' = TRUE
    /\ latest' = <<>>
    /\ UNCHANGED <<exitStatus, prevKnown, sync_done>>

\* SyncReplClient(...): the object main works on from here is a new one
Connect ==
    /\ pc = "Connecting"
    /\ UNCHANGED pure
    /\ cookie' = PyNone
    /\ sync_done' = FALSE
    /\ changedb' = <<>>
    /\ presentUUIDs' = {}
    /\ pc' = "Bound"
    /\ Quiet("Connect")
    /\ onlyEntries' = TRUE
    /\ latest' = <<>>
    /\ UNCHANGED <<exitStatus, prevKnown>>

BindOk ==
    /\ pc = "Bound"
    /\ UNCHANGED pure
    /\ pc' = "Syncing"
    /\ Quiet("BindOk")
    /\ UNCHANGED <<exitStatus, client, history>>

\* invalid credentials handled like a server that is down
BindInvalidCredentials_retries ==
    /\ pc = "Bound"
    /\ UNCHANGED pure
    /\ pc' = "BackoffBind"
    /\ Quiet("BindInvalidCredentials")
    /\ UNCHANGED <<exitStatus, client, history>>

\* sys.exit(1) in the except clause
BindInvalidCredentials ==
    /\ pc = "Bound"
    /\ UNCHANGED pure
    /\ pc' = "FatalExit"
    /\ exitStatus' = 1
    /\ Quiet("BindInvalidCredentials")
    /\ UNCHANGED <<client, history>>

\* a retry without the sleep
BindServerDown_no_sleep ==
    /\ pc = "Bound"
    /\ UNCHANGED pure
    /\ pc' = "Connecting"
    /\ Quiet("BindServerDown")
    /\ UNCHANGED <<exitStatus, client, history>>

\* except ldap.SERVER_DOWN: main is in time.sleep(5)
BindServerDown ==
    /\ pc = "Bound"
    /\ UNCHANGED pure
    /\ pc' = "BackoffBind"
    /\ Quiet("BindServerDown")
    /\ UNCHANGED <<exitStatus, client, history>>

\* time.sleep(5) returns; the while loop starts over
BackoffDone ==
    /\ pc \in {"BackoffBind", "BackoffPoll"}
    /\ UNCHANGED pure
    /\ pc' = "Connecting"
    /\ Quiet("BackoffDone")
    /\ UNCHANGED <<exitStatus, client, history>>

StartSearch ==
    /\ pc = "Syncing"
    /\ UNCHANGED pure
    /\ pc' = "Polling"
    /\ Quiet("StartSearch")
    /\ UNCHANGED <<exitStatus, client, history>>

\* syncrepl_poll itself raises (connection lost, decoding error, ...)
PollException ==
    /\ pc = "Polling"
    /\ UNCHANGED pure
    /\ pc' = "BackoffPoll"
    /\ last' = [op |-> "PollException"]
    /\ posted' = <<>> /\ puts' = <<>> /\ raised' = "Exception"
    /\ PollingEnds("Exception", changedb)
    /\ UNCHANGED <<exitStatus, client, onlyEntries, latest>>

\* syncrepl_poll returns False: the while loop ends without an exception
PollExhausted ==
    /\ pc = "Polling"
    /\ UNCHANGED pure
    /\ pc' = "Connecting"
    /\ Quiet("PollExhausted")
    /\ prevKnown' = {}
    /\ UNCHANGED <<exitStatus, client, onlyEntries, latest>>

\* KeyboardInterrupt while polling: return
PollInterrupt ==
    /\ pc = "Polling"
    /\ UNCHANGED pure
    /\ pc' = "CleanExit"
    /\ exitStatus' = 0
    /\ Quiet("PollInterrupt")
    /\ UNCHANGED <<client, history>>

\* An exception of SyncReplClient(...), of simple_bind_s other than the two
\* caught, or of syncrepl_search: no try statement of main covers it, the
\* interpreter prints the traceback and exits with status 1.
ConnectException ==
    /\ pc = "Connecting"
    /\ UNCHANGED pure
    /\ pc' = "Uncaught"
    /\ exitStatus' = 1
    /\ last' = [op |-> "ConnectException"]
    /\ posted' = <<>> /\ puts' = <<>> /\ raised' = "Exception"
    /\ UNCHANGED <<client, history>>

BindException ==
    /\ pc = "Bound"
    /\ UNCHANGED pure
    /\ pc' = "Uncaught"
    /\ exitStatus' = 1
    /\ last' = [op |-> "BindException"]
    /\ posted' = <<>> /\ puts' = <<>> /\ raised' = "Exception"
    /\ UNCHANGED <<client, history>>

SearchException ==
    /\ pc = "Syncing"
    /\ UNCHANGED pure
    /\ pc' = "Uncaught"
    /\ exitStatus' = 1
    /\ last' = [op |-> "SearchException"]
    /\ posted' = <<>> /\ puts' = <<>> /\ raised' = "Exception"
    /\ UNCHANGED <<client, history>>

\* KeyboardInterrupt anywhere but in the try of the poll loop (constructing,
\* binding, searching, either time.sleep; the sleep of line 168 is in an
\* except clause, which the "except KeyboardInterrupt" beside it does not
\* cover): uncaught, the interpreter ends the process as killed by SIGINT,
\* which a shell reports as status 130.
UncaughtInterrupt ==
    /\ pc \in {"Connecting", "Bound", "Syncing", "BackoffBind", "BackoffPoll"}
    /\ UNCHANGED pure
    /\ pc' = "Uncaught"
    /\ exitStatus' = 130
    /\ last' = [op |-> "UncaughtInterrupt", at |-> pc]
    /\ posted' = <<>> /\ puts' = <<>> /\ raised' = "KeyboardInterrupt"
    /\ UNCHANGED <<client, history>>

Next ==
    \/ \E c \in Cookies : syncrepl_set_cookie(c)
    \/ \E dn \in DNs, attributes \in AttrMaps, uuid \in UUIDs :
          \E down \in Downs(IF sync_done THEN 1 ELSE 0) :
              syncrepl_entry(dn, attributes, uuid, down)
    \/ \E uuids \in IdLists :
          \E down \in Downs(Len(SelectSeq(uuids, LAMBDA uuid : Has(changedb, uuid)))) :
              syncrepl_delete(uuids, down)
    \/ \E uuids \in {PyNone} \cup {List(q) : q \in IdLists}, refreshDeletes \in BOOLEAN :
          \E down \in Downs(IF uuids = PyNone /\ ~refreshDeletes THEN Len(changedb)
                              ELSE IF uuids # PyNone /\ refreshDeletes THEN Len(uuids.l)
                              ELSE 0) :
              syncrepl_present(uuids, refreshDeletes, down)
    \/ syncrepl_refreshdone
    \/ Connect
    \/ BindOk
    \/ BindInvalidCredentials
    \/ BindServerDown
    \/ BackoffDone
    \/ StartSearch
    \/ PollException
    \/ PollExhausted
    \/ PollInterrupt
    \/ ConnectException
    \/ BindException
    \/ SearchException
    \/ UncaughtInterrupt

Spec == Init /\ [][Next]_vars

\* time.sleep(5) returns
FairSpec == Spec /\ WF_vars(BackoffDone)

(***************************************************************************)
(* stringify called on its own, twice over: stringify(stringify(arg)).     *)
(***************************************************************************)
\* values that are neither dict nor list
Atoms == {Str("a"), Bytes("a"), Bytes("\\xff")}

\* lists of up to MaxLen atoms, and those that have room for one more member
FlatLists == UNION {[1..n -> Atoms] : n \in 0..MaxLen}
ShortLists == UNION {[1..n -> Atoms] : n \in 0..(MaxLen - 1)}

\* the lists made of q and one of the values of deep, at any place
InsertAt(q, i, v) == SubSeq(q, 1, i - 1) \o <<v>> \o SubSeq(q, i, Len(q))
NestedLists(q, deep) ==
    {List(InsertAt(q, i, v)) : i \in 1..(Len(q) + 1), v \in deep}

\* dicts of no key or of the one key "k"
Dicts(sub) == {EmptyDict} \cup {Dict([k |-> v]) : v \in sub}

\* the values one level deeper than those of sub: atoms, lists of up to
\* MaxLen members of which at most one is itself a list or a dict, and dicts
OneDeeper(sub) ==
    Atoms
    \cup {List(q) : q \in FlatLists}
    \cup UNION {NestedLists(q, deep) : q \in ShortLists, deep \in {sub \ Atoms}}
    \cup Dicts(sub)

\* the values nested at most depth deep
RECURSIVE PyValuesUpTo(_)
PyValuesUpTo(depth) ==
    IF depth = 0 THEN Atoms
    ELSE UNION {OneDeeper(sub) : sub \in {PyValuesUpTo(depth - 1)}}

\* no main is running; arg is the value about to be handed to stringify, one
\* of OneDeeper(PyValuesUpTo(MaxDepth - 1))
InitStringify ==
    /\ pc = "Connecting"
    /\ exitStatus = -1
    /\ cookie = PyNone
    /\ sync_done = FALSE
    /\ changedb = <<>>
    /\ presentUUIDs = {}
    /\ last = [op |-> "start"]
    /\ posted = <<>>
    /\ puts = <<>>
    /\ raised = "none"
    /\ onlyEntries = TRUE
    /\ latest = <<>>
    /\ prevKnown = {}
    /\ \E sub \in {PyValuesUpTo(MaxDepth - 1)} :
          \/ arg \in Atoms
          \/ arg \in {List(q) : q \in FlatLists}
          \/ \E q \in ShortLists, deep \in {sub \ Atoms} : arg \in NestedLists(q, deep)
          \/ arg \in Dicts(sub)
    /\ obj = arg
    /\ once = PyNone
    /\ calls = 0

\* the next call of stringify(stringify(arg)): the inner one, then the outer
\* one on what the inner one returned.  When the inner call raises, the outer
\* one is not made and the exception is the outcome of the whole expression.
StringifyCall ==
    /\ calls < 2
    /\ calls' = calls + 1
    /\ obj' = IF IsExc(obj) THEN obj ELSE stringify(obj)
    /\ once' = IF calls = 0 THEN obj' ELSE once
    /\ UNCHANGED <<arg, pc, exitStatus, client, last, posted, puts, raised, history>>

NextStringify == StringifyCall

SpecStringify == InitStringify /\ [][NextStringify]_vars

(***************************************************************************)
(* Properties.                                                             *)
(***************************************************************************)
Kinds(q) == {q[i].change_type : i \in 1..Len(q)}
PutKinds == {puts[i].js.change_type : i \in 1..Len(puts)}

\* C1 as stated: while sync_done is False (phase Refreshing) no callback,
\* whichever it is, hands an event to post_change or makes a PUT.
C1_NoPublishWhileRefreshing ==
    ~sync_done => (posted = <<>> /\ puts = <<>>)

\* C1 amended: while sync_done is False no add or modify event is published
\* (syncrepl_entry publishes nothing); only delete events are, from
\* syncrepl_delete and syncrepl_present.
C1_NoAddModifyWhileRefreshing ==
    ~sync_done =>
        /\ Kinds(posted) \subseteq {"delete"}
        /\ PutKinds \subseteq {"delete"}
        /\ last.op = "syncrepl_entry" => (posted = <<>> /\ puts = <<>>)

\* a known entry is delivered again before refreshdone and nothing is published
C1_Witness ==
    /\ ~sync_done /\ pc = "Polling"
    /\ last.op = "syncrepl_entry" /\ last.change_type = "modify"
    /\ posted = <<>> /\ puts = <<>>

\* the identifiers of a list without repetitions, in order of first occurrence
RECURSIVE Distinct(_)
Distinct(q) ==
    IF q = <<>> THEN <<>>
    ELSE LET front == Distinct(SubSeq(q, 1, Len(q) - 1))
         IN  IF \E i \in 1..Len(front) : front[i] = q[Len(q)]
             THEN front ELSE Append(front, q[Len(q)])

\* the attribute map of a stored entry: the stored dict without its "dn" record
AttrsOf(v) == Dict([k \in DOMAIN v.d \ {"dn"} |-> v.d[k]])

\* the Delete payload for a stored entry
DeletePayload(v) ==
    [dn |-> v.d["dn"], change_type |-> "delete",
     old_attributes |-> stringify(v), new_attributes |-> EmptyDict]

\* C2 as stated: after syncrepl_refreshdone every syncrepl_entry call makes
\* exactly one PUT, every syncrepl_delete call makes exactly one PUT for each
\* known identifier of its list, in list order, and a step that is none of
\* the publishing callbacks makes no PUT.
C2_OnePublishPerCallbackInOrder ==
    [][ (sync_done /\ pc = "Polling") =>
          /\ last'.op = "syncrepl_entry" =>
                /\ Len(puts') = 1
                /\ puts'[1].js.dn = Str(last'.dn)
          /\ last'.op = "syncrepl_delete" =>
                LET known == Distinct(SelectSeq(last'.uuids,
                                                LAMBDA u : Has(changedb, u)))
                IN  /\ Len(puts') = Len(known)
                    /\ \A i \in 1..Len(known) :
                          /\ puts'[i].js.change_type = "delete"
                          /\ puts'[i].js.dn = Get(changedb, known[i]).d["dn"]
          /\ last'.op \notin {"syncrepl_entry", "syncrepl_delete", "syncrepl_present"}
                => puts' = <<>>
      ]_vars

\* C3: while a client object has run nothing but syncrepl_entry calls, the
\* keys of changedb are exactly the identifiers delivered, each holds the
\* attributes of its latest delivery with the dn of that delivery recorded
\* under "dn", and a delivery is classified add if it is the first of its
\* identifier and modify otherwise.
C3_EntriesOnly ==
    /\ [](onlyEntries =>
            /\ KeySet(changedb) = DOMAIN latest
            /\ Len(changedb) = Cardinality(DOMAIN latest)
            /\ \A u \in DOMAIN latest :
                  /\ AttrsOf(Get(changedb, u)) = latest[u].attributes
                  /\ Get(changedb, u).d["dn"] = Str(latest[u].dn))
    /\ [][ (pc = "Polling" /\ onlyEntries' /\ last'.op = "syncrepl_entry") =>
              last'.change_type =
                  IF last'.uuid \in DOMAIN latest THEN "modify" ELSE "add" ]_vars

\* both identifiers delivered, one of them a second time with other values
C3_Witness ==
    /\ onlyEntries /\ DOMAIN latest = UUIDs
    /\ last.op = "syncrepl_entry" /\ last.change_type = "modify"
    /\ \E u \in UUIDs : u # last.uuid /\ latest[u] # latest[last.uuid]

\* C4 as stated: after syncrepl_refreshdone a syncrepl_entry call makes
\* exactly one PUT; for a known identifier it is a modify whose
\* old_attributes is the attribute map stored for the identifier and whose
\* new_attributes is the map delivered now; for an unknown identifier it is
\* an add with empty old_attributes.  (Maps are compared as the sink gets
\* them, decoded, and without the "dn" record the entry is stored with.)
C4_EntryPayloadInPersisting ==
    [][ (sync_done /\ pc = "Polling" /\ last'.op = "syncrepl_entry") =>
          /\ Len(puts') = 1
          /\ AttrsOf(puts'[1].js.new_attributes) = stringify(last'.attributes)
          /\ IF Has(changedb, last'.uuid)
             THEN /\ puts'[1].js.change_type = "modify"
                  /\ AttrsOf(puts'[1].js.old_attributes)
                        = stringify(AttrsOf(Get(changedb, last'.uuid)))
             ELSE /\ puts'[1].js.change_type = "add"
                  /\ puts'[1].js.old_attributes = EmptyDict
      ]_vars

\* C5 as stated: syncrepl_delete of one identifier raises nothing and leaves
\* the identifier unknown (so that a second call finds it unknown); if the
\* identifier was known it makes one delete PUT and removes just that entry;
\* if it was unknown it makes no PUT and changes nothing.
C5_DeleteIdempotent ==
    [][ (pc = "Polling" /\ last'.op = "syncrepl_delete" /\ Len(last'.uuids) = 1) =>
          LET uuid == last'.uuids[1]
          IN  /\ raised' = "none"
              /\ ~Has(changedb', uuid)
              /\ Has(changedb, uuid) =>
                    /\ Len(puts') = 1
                    /\ puts'[1].js.change_type = "delete"
                    /\ changedb' = DelItem(changedb, uuid)
              /\ ~Has(changedb, uuid) =>
                    /\ puts' = <<>>
                    /\ changedb' = changedb
              /\ UNCHANGED <<sync_done, presentUUIDs, cookie>>
      ]_vars

\* C6 as stated: syncrepl_present(None, False) makes exactly one delete PUT
\* for each key of changedb that is not in presentUUIDs and none for the
\* others, removes exactly those keys and empties presentUUIDs;
\* syncrepl_present(None, True) deletes nothing and empties presentUUIDs.
C6_PresenceInference ==
    [][ (pc = "Polling" /\ last'.op = "syncrepl_present" /\ last'.uuids = PyNone) =>
          IF last'.refreshDeletes = FALSE
          THEN LET gone == SelectSeq(Keys(changedb),
                                     LAMBDA u : u \notin presentUUIDs)
               IN  /\ Len(puts') = Len(gone)
                   /\ \A i \in 1..Len(gone) :
                         puts'[i].js = DeletePayload(Get(changedb, gone[i]))
                   /\ changedb' = SelectSeq(changedb,
                                            LAMBDA p : p[1] \in presentUUIDs)
                   /\ presentUUIDs' = {}
          ELSE /\ puts' = <<>>
               /\ changedb' = changedb
               /\ presentUUIDs' = {}
      ]_vars

\* C7 as stated: syncrepl_delete(uuids) and syncrepl_present(uuids, True)
\* make, for each known identifier of uuids, a delete PUT with the stored dn,
\* the stored attributes as old_attributes and empty new_attributes, whether
\* or not sync_done is set, and the identifier is unknown afterwards.
C7_DeletePath ==
    [][ (/\ pc = "Polling"
         /\ \/ last'.op = "syncrepl_delete"
            \/ /\ last'.op = "syncrepl_present"
               /\ last'.uuids # PyNone
               /\ last'.refreshDeletes) =>
          LET ids == IF last'.op = "syncrepl_delete" THEN last'.uuids
                     ELSE last'.uuids.l
          IN  \A i \in 1..Len(ids) :
                Has(changedb, ids[i]) =>
                    /\ ~Has(changedb', ids[i])
                    /\ \E j \in 1..Len(puts') :
                          puts'[j].js = DeletePayload(Get(changedb, ids[i]))
      ]_vars

\* a client object as SyncReplClient.__init__ leaves it
Fresh ==
    /\ changedb = <<>>
    /\ presentUUIDs = {}
    /\ sync_done = FALSE
    /\ cookie = PyNone

\* C8: every connection attempt (the bind and the search that follows it)
\* is made with a client object that holds nothing: changedb and
\* presentUUIDs are empty, sync_done is False and cookie is None.
C8_FreshStateOnConnect ==
    pc \in {"Bound", "Syncing"} => Fresh

\* a reconnect after a session that held entries
C8_Witness ==
    /\ pc = "Bound" /\ prevKnown # {} /\ Fresh

WithSinkUp(l) ==
    IF l.op = "syncrepl_entry"
    THEN LET r == entry_result(changedb, sync_done, l.dn, l.attributes, l.uuid, {})
         IN  [changedb |-> r.changedb, presentUUIDs |-> presentUUIDs,
              exc |-> r.exc, puts |-> r.puts]
    ELSE IF l.op = "syncrepl_delete"
    THEN LET r == delete_result(changedb, l.uuids, {})
         IN  [changedb |-> r.changedb, presentUUIDs |-> presentUUIDs,
              exc |-> r.exc, puts |-> r.puts]
    ELSE LET r == present_result(changedb, presentUUIDs, l.uuids,
                                 l.refreshDeletes, {})
         IN  [changedb |-> r.changedb, presentUUIDs |-> r.presentUUIDs,
              exc |-> r.exc, puts |-> r.puts]

\* C10: a callback in which a requests.put raises ends as it ends when
\* every put returns: same changedb, presentUUIDs, sync_done and cookie,
\* same PUTs attempted, same exception or none leaving it, same place of
\* main (polling, unless the callback raises with the sink up as well).
C10_PutFailureIsIsolated ==
    [][ (pc = "Polling" /\ \E i \in 1..Len(puts') : ~puts'[i].ok) =>
          /\ \E r \in {WithSinkUp(last')} :
                /\ changedb' = r.changedb
                /\ presentUUIDs' = r.presentUUIDs
                /\ raised' = r.exc
                /\ pc' = AfterCallback(r.exc)
                /\ [i \in 1..Len(puts') |-> puts'[i].js]
                      = [i \in 1..Len(r.puts) |-> r.puts[i].js]
          /\ UNCHANGED <<sync_done, cookie, exitStatus>>
      ]_vars

\* a syncrepl_entry whose PUT failed: the entry is stored, polling goes on
C10_Witness ==
    /\ pc = "Polling" /\ raised = "none"
    /\ last.op = "syncrepl_entry" /\ Has(changedb, last.uuid)
    /\ Len(puts) = 1 /\ ~puts[1].ok

\* C11 as stated: every event handed to post_change gets exactly one PUT,
\* for that event, in the step that hands it over, whether or not an earlier
\* PUT of the step failed; a step of main that runs no publishing callback
\* (a reconnect among them) makes no PUT.
C11_ExactlyOneAttemptPerEvent ==
    /\ Len(puts) = Len(posted)
    /\ \A i \in 1..Len(puts) :
          /\ puts[i].js.change_type = posted[i].change_type
          /\ puts[i].js.dn = posted[i].dn
    /\ last.op \notin {"syncrepl_entry", "syncrepl_delete", "syncrepl_present"}
          => puts = <<>>

\* the process has ended
Terminated == pc \in {"FatalExit", "CleanExit", "Uncaught"}

\* C12 as stated: the process ends only in FatalExit (invalid credentials)
\* or on a user interruption; a step that fails in any other way (an
\* exception constructing the client, binding, searching, polling or in a
\* callback) leaves main on its way back to Connecting.
C12_OnlyAuthOrInterruptTerminates ==
    /\ Terminated =>
          \/ pc = "FatalExit" /\ last.op = "BindInvalidCredentials"
          \/ pc = "CleanExit"
          \/ raised = "KeyboardInterrupt"
    /\ raised \notin {"none", "KeyboardInterrupt"} =>
          pc \in {"BackoffBind", "BackoffPoll", "Connecting"}

\* C13: the step that meets invalid credentials is taken from the bind,
\* ends the process in FatalExit with status 1 and leaves the client object
\* as it was; nothing (no sleep, no connection attempt, no search, no
\* callback) follows it.
C13_InvalidCredentialsExitAtOnce ==
    /\ [](last.op = "BindInvalidCredentials" =>
            (pc = "FatalExit" /\ exitStatus = 1))
    /\ [][ /\ pc # "FatalExit"
           /\ pc' = "FatalExit" =>
                (pc = "Bound" /\ last'.op = "BindInvalidCredentials"
                 /\ UNCHANGED client) ]_vars

\* invalid credentials met on a reconnect
C13_Witness ==
    /\ pc = "FatalExit" /\ exitStatus = 1
    /\ last.op = "BindInvalidCredentials" /\ prevKnown # {}

\* C14 as stated: a user interruption, wherever main is when it arrives
\* (polling, in a callback or its PUT, constructing, binding, searching,
\* sleeping), ends the process in CleanExit with status 0.
C14_InterruptIsCleanExit ==
    last.op \in {"PollInterrupt", "UncaughtInterrupt"} =>
        (pc = "CleanExit" /\ exitStatus = 0)

\* main is in one of its two time.sleep(5) calls
Sleeping == pc \in {"BackoffBind", "BackoffPoll"}

\* the step taken is a transient failure: ldap.SERVER_DOWN at bind, or an
\* exception (of syncrepl_poll or of a callback) during polling
TransientFailure ==
    \/ last'.op = "BindServerDown"
    \/ pc = "Polling" /\ raised' # "none"

\* C15 as stated, in its part a finite run can refute: a transient failure
\* puts main into the backoff sleep, and the step that follows a sleep is a
\* new connection attempt's start (Connecting).
C15_SleepThenConnecting ==
    [][ /\ TransientFailure => Sleeping'
        /\ Sleeping => pc' = "Connecting" ]_vars

\* C15 amended: a transient failure puts main into the backoff sleep; the
\* sleep is entered by nothing else; it is followed by Connecting unless the
\* user interrupts it, which ends the process; and with the sleep returning
\* (fairness) main always gets from the sleep to Connecting or to that end.
C15_SleepThenConnectingUnlessInterrupted ==
    /\ [][ /\ TransientFailure => Sleeping'
           /\ (Sleeping' /\ ~Sleeping) => TransientFailure
           /\ Sleeping => \/ pc' = "Connecting" /\ last'.op = "BackoffDone"
                          \/ pc' = "Uncaught" /\ last'.op = "UncaughtInterrupt"
       ]_vars
    /\ [](Sleeping => <>(pc = "Connecting" \/ pc = "Uncaught"))

\* back at Connecting after the sleep that followed an exception in polling
C15_Witness ==
    /\ pc = "Connecting" /\ last.op = "BackoffDone" /\ prevKnown # {}

\* the dicts of a post_change call hold a value that str(v, 'utf-8') cannot
\* decode
Undecodable(call) ==
    \/ IsExc(stringify(call.attributes))
    \/ IsExc(stringify(call.previous_attributes))

\* C16: a callback that publishes a change holding a bytes value that is not
\* valid UTF-8 still makes the PUT of every change it publishes, no
\* decoding error leaves it, and main stays in its polling loop unless
\* something else raised.
C16_UndecodableValueStillDelivered ==
    (\E i \in 1..Len(posted) : Undecodable(posted[i])) =>
        /\ Len(puts) = Len(posted)
        /\ raised # "UnicodeDecodeError"
        /\ raised = "none" => pc = "Polling"

\* C17: stringify is idempotent: for every value built from str, bytes, dicts
\* and lists nested to MaxDepth, stringify(stringify(x)) has the outcome of
\* stringify(x).
C17_StringifyIdempotent ==
    calls = 2 => obj = once

\* both calls returned, and the first one did change its argument
C17_Witness ==
    /\ calls = 2 /\ obj = once /\ ~IsExc(obj) /\ obj # arg /\ IsList(arg)

\* the identifier list a step hands to syncrepl_delete, directly or through
\* syncrepl_present(uuids, refreshDeletes = True)
DeleteBatch(l) ==
    IF l.op = "syncrepl_delete" THEN l.uuids
    ELSE IF l.op = "syncrepl_present" /\ l.uuids # PyNone /\ l.refreshDeletes
    THEN l.uuids.l
    ELSE <<>>

\* C18: a delete list that names a known identifier more than once publishes
\* exactly one Delete for it, removes it, and raises no error.  (Stated for
\* stored entries that stringify can decode.)
C18_DuplicateIdDeletedOnce ==
    [][ \A u \in UUIDs :
          (/\ pc = "Polling"
           /\ Has(changedb, u)
           /\ \A i \in 1..Len(changedb) : ~IsExc(stringify(changedb[i][2]))
           /\ Cardinality({i \in 1..Len(DeleteBatch(last')) :
                              DeleteBatch(last')[i] = u}) > 1) =>
              /\ Cardinality({j \in 1..Len(puts') :
                    puts'[j].js = DeletePayload(Get(changedb, u))}) = 1
              /\ ~Has(changedb', u)
              /\ raised' = "none"
      ]_vars

\* C19: main never starts a connection attempt after another one without
\* having slept in between: every step back to Connecting, the one taken
\* when syncrepl_poll returns False included, is taken from a time.sleep(5).
C19_BackoffBeforeEveryConnecting ==
    [][ pc' = "Connecting" => pc \in {"BackoffBind", "BackoffPoll"} ]_vars

\* C20: presentUUIDs is changed by syncrepl_present alone;
\* syncrepl_present(uuids, refreshDeletes = False) with a list only adds the
\* list's identifiers to it, publishes nothing and leaves changedb and
\* sync_done as they are; so syncrepl_present(None, False) publishes as
\* deleted, and removes, every stored identifier that was not marked,
\* whatever sync_done is.
C20_PresentSetFrame ==
    [][ pc = "Polling" =>
          /\ last'.op # "syncrepl_present" => presentUUIDs' = presentUUIDs
          /\ (/\ last'.op = "syncrepl_present"
              /\ last'.uuids # PyNone
              /\ ~last'.refreshDeletes) =>
                /\ presentUUIDs' =
                       presentUUIDs \cup {last'.uuids.l[i] : i \in 1..Len(last'.uuids.l)}
                /\ posted' = <<>> /\ puts' = <<>>
                /\ changedb' = changedb /\ sync_done' = sync_done
          /\ (/\ last'.op = "syncrepl_present"
              /\ last'.uuids = PyNone
              /\ ~last'.refreshDeletes) =>
                \A i \in 1..Len(changedb) :
                    changedb[i][1] \notin presentUUIDs =>
                        /\ ~Has(changedb', changedb[i][1])
                        /\ \E j \in 1..Len(puts') :
                              puts'[j].js = DeletePayload(changedb[i][2])
      ]_vars

====
